---- MODULE Spec2Model ----
(***************************************************************************)
(* Model of sampletester/caserunner.py: the TestCase object, its directive *)
(* handlers and the three-stage driver TestCase.run().                     *)
(*                                                                         *)
(* A handler is an operator from the case's mutable fields (a record `st`) *)
(* to those fields after the call; the field `raised` holds the exception  *)
(* that is propagating out of the call ("none" when it returned) and `ret` *)
(* the returned value.  The stage driver consumes the entries of the three *)
(* stage specifications one at a time; the entry and the outcome of the    *)
(* external world (target resolution, process exit code and output, an     *)
(* interrupt) are drawn when the driver reaches the entry.  The text of    *)
(* the transcript (self.output) and the timestamps are not part of the     *)
(* model.                                                                  *)
(*                                                                         *)
(* Spec runs cases made of call, shell, code, assertion, uuid, log and     *)
(* malformed entries; SpecTeardown runs the same entries with a long       *)
(* TEARDOWN; SpecChecks runs cases that invoke a command in SETUP and      *)
(* examine its output in TEST (containment, extract_match, log, env).      *)
(***************************************************************************)
EXTENDS Integers, Sequences, FiniteSets, TLC

VARIABLES
  pc,               \* position of run(): init, SETUP, TEST, TEARDOWN, summary, returned, raised
  idx,              \* entries of the current stage already consumed
  nsegments,        \* len(self.setup), len(self.case), len(self.teardown)
  spec_segment,     \* the entry given to the last run_segment call
  failures,         \* self.failures
  errors,           \* self.errors
  last_return_code, \* self.last_return_code
  last_call_output, \* self.last_call_output
  local_symbols,    \* self.local_symbols (data entries)
  caught,           \* exception caught by the try around SETUP/TEST, and its stage
  caught_teardown,  \* exception caught by the try around TEARDOWN
  ran,              \* per stage: number of entries given to run_segment
  teardown_started, \* number of times the TEARDOWN try block was entered
  status_logged,    \* summary line logged by run(): PASSED, FAILED, ERRORED
  result,           \* value returned by run(), -1 before it returns
  run_raised,       \* exception that left run(), "none" otherwise
  outcome,          \* what the environment and the subprocess did in the last entry
  asserted          \* stages in which assert_that was called with a false condition

vars == <<pc, idx, nsegments, spec_segment, failures, errors, last_return_code,
          last_call_output, local_symbols, caught, caught_teardown, ran,
          teardown_started, status_logged, result, run_raised, outcome, asserted>>

\* ---------------------------------------------------------------- bounds
MaxSetup == 1
MaxTest == 2
MaxTeardown == 1
MaxExitCode == 2

Stages == {"SETUP", "TEST", "TEARDOWN"}
ExitCodes == 0..MaxExitCode
Outputs == {"", "count: 42"}

\* ---------------------------------------------------------------- messages
\* A message template is a str made of tokens, "{}" being the positional
\* placeholder, or (assert_success's default) the empty list [].
Str(toks) == [type |-> "str", toks |-> toks]
EmptyList == [type |-> "list", toks |-> <<>>]

\* str.count("{}")
RECURSIVE count_placeholders(_)
count_placeholders(toks) ==
  IF toks = <<>> THEN 0
  ELSE (IF Head(toks) = "{}" THEN 1 ELSE 0) + count_placeholders(Tail(toks))

\* "{} " * missing
RECURSIVE padding(_)
padding(missing) ==
  IF missing <= 0 THEN <<>> ELSE <<"{}", " ">> \o padding(missing - 1)

\* environment.get_symbol: the provider's value of a named symbol
get_symbol(name) == IF name = "{name}" THEN "world" ELSE ""
NamedPlaceholders == {"{name}"}

\* interpolate_symbols: replaces every {sname} by resolver(sname)
interpolate_symbols(toks) ==
  [i \in 1..Len(toks) |->
     IF toks[i] \in NamedPlaceholders THEN get_symbol(toks[i]) ELSE toks[i]]

\* str.format(*args) on the tokens: the k-th "{}" takes args[k]
RECURSIVE str_format(_, _, _)
str_format(toks, args, k) ==
  IF toks = <<>> THEN <<>>
  ELSE IF Head(toks) = "{}"
       THEN <<args[k]>> \o str_format(Tail(toks), args, k + 1)
       ELSE <<Head(toks)>> \o str_format(Tail(toks), args, k)

\* format_string that leaves out the placeholders the arguments cannot fill
format_string_never_raises(msg, args) ==
  IF msg.type # "str" THEN [raised |-> "TypeError", text |-> <<>>]
  ELSE [raised |-> "none", text |-> interpolate_symbols(msg.toks)]

\* TestCase.format_string: [raised, text]
format_string(msg, args) ==
  IF msg.type # "str" THEN [raised |-> "TypeError", text |-> <<>>]
  ELSE LET m == interpolate_symbols(msg.toks)
           count == count_placeholders(m)
           missing == Len(args) - count
           padded == IF missing > 0 THEN m \o <<": ">> \o padding(missing) ELSE m
       IN IF Len(args) = 0 THEN [raised |-> "none", text |-> m]
          ELSE IF count_placeholders(padded) > Len(args)
               THEN [raised |-> "IndexError", text |-> <<>>]
               ELSE [raised |-> "none", text |-> str_format(padded, args, 1)]

\* ---------------------------------------------------------------- text
\* Python's None
PyNone == "<None>"

\* The characters of the strings that outputs, values and captures are made of
Chars ==
  [s \in {"", "count: 42", "a1 B22", "COUNT", "count", "42", "1", "b2", "zz"} |->
     CASE s = "" -> <<>>
       [] s = "count: 42" -> <<"c", "o", "u", "n", "t", ":", " ", "4", "2">>
       [] s = "a1 B22" -> <<"a", "1", " ", "B", "2", "2">>
       [] s = "COUNT" -> <<"C", "O", "U", "N", "T">>
       [] s = "count" -> <<"c", "o", "u", "n", "t">>
       [] s = "42" -> <<"4", "2">>
       [] s = "1" -> <<"1">>
       [] s = "b2" -> <<"b", "2">>
       [] s = "zz" -> <<"z", "z">>]

\* the str whose characters are cs
Join(cs) == CHOOSE s \in DOMAIN Chars : Chars[s] = cs

UpperCase == <<"A", "B", "C", "N", "O", "T", "U">>
LowerCase == <<"a", "b", "c", "n", "o", "t", "u">>

\* str.lower()
lower(cs) ==
  [i \in 1..Len(cs) |->
     IF \E k \in 1..Len(UpperCase) : UpperCase[k] = cs[i]
     THEN LowerCase[CHOOSE k \in 1..Len(UpperCase) : UpperCase[k] = cs[i]]
     ELSE cs[i]]

\* `sub in text` on str
contains(sub, text) ==
  \E i \in 0..(Len(text) - Len(sub)) : SubSeq(text, i + 1, i + Len(sub)) = sub

Digits == {"0", "1", "2", "3", "4", "5", "6", "7", "8", "9"}
Letters == {"a", "b", "c", "n", "o", "t", "u", "z"}

\* The regular expressions of the entries, compiled: a sequence of atoms, each
\* a character class, repeated (+) or not, that is a capture group or not
Patterns ==
  [p \in {"(\\d+)", "\\d+", "([a-z]+): (\\d+)"} |->
     CASE p = "(\\d+)" -> <<[cls |-> Digits, plus |-> TRUE, group |-> TRUE]>>
       [] p = "\\d+" -> <<[cls |-> Digits, plus |-> TRUE, group |-> FALSE]>>
       [] p = "([a-z]+): (\\d+)" ->
            <<[cls |-> Letters, plus |-> TRUE, group |-> TRUE],
              [cls |-> {":"}, plus |-> FALSE, group |-> FALSE],
              [cls |-> {" "}, plus |-> FALSE, group |-> FALSE],
              [cls |-> Digits, plus |-> TRUE, group |-> TRUE]>>]

\* the match of the atoms that starts at pos, greedy and backtracking, and
\* the spans of its capture groups
RECURSIVE match_at(_, _, _)
match_at(atoms, text, pos) ==
  IF atoms = <<>> THEN [ok |-> TRUE, caps |-> <<>>]
  ELSE LET a == Head(atoms)
           run == {k \in 1..(Len(text) - pos + 1) :
                     \A j \in pos..(pos + k - 1) : text[j] \in a.cls}
           lens == IF a.plus THEN run ELSE run \cap {1}
           good == {k \in lens : match_at(Tail(atoms), text, pos + k).ok}
       IN IF good = {} THEN [ok |-> FALSE, caps |-> <<>>]
          ELSE LET k == CHOOSE x \in good : \A y \in good : y <= x
                   rest == match_at(Tail(atoms), text, pos + k)
               IN [ok |-> TRUE,
                   caps |-> (IF a.group THEN <<<<pos, pos + k - 1>>>> ELSE <<>>)
                            \o rest.caps]

\* re.search(pattern, text): the leftmost match and its match.groups()
re_search(pattern, text) ==
  LET atoms == Patterns[pattern]
      starts == {p \in 1..Len(text) : match_at(atoms, text, p).ok}
      caps == match_at(atoms, text, CHOOSE p \in starts : \A q \in starts : p <= q).caps
  IN IF starts = {} THEN [matched |-> FALSE, groups |-> <<>>]
     ELSE [matched |-> TRUE,
           groups |-> [i \in 1..Len(caps) |->
                         Join(SubSeq(text, caps[i][1], caps[i][2]))]]

\* ---------------------------------------------------------------- handlers
Raise(st, exc) == [st EXCEPT !.raised = exc]
Return(st, v) == [st EXCEPT !.ret = v]

\* record_failure that appends the record twice
record_failure_twice(st, status, message, args) ==
  [st EXCEPT !.failures =
     @ \o <<[status |-> status, message |-> message, args |-> args],
            [status |-> status, message |-> message, args |-> args]>>]

\* TestCase.record_failure
record_failure(st, status, message, args) ==
  [st EXCEPT !.failures =
     Append(@, [status |-> status, message |-> message, args |-> args])]

\* TestCase.print_out: format_string(str(msg), *args) appended to the transcript
print_out(st, msg, args) ==
  LET r == format_string(msg, args)
  IN IF r.raised # "none" THEN Raise(st, r.raised) ELSE st

\* expect that also unwinds the stage, as assert_that does
expect_aborts(st, condition, message, args) ==
  IF condition THEN st
  ELSE Raise(record_failure(st, "FAILED EXPECTATION", message, args), "TestFailure")

\* TestCase.expect
expect(st, condition, message, args) ==
  IF condition THEN st
  ELSE print_out(record_failure(st, "FAILED EXPECTATION", message, args),
                 Str(<<"# FAILED EXPECTATION">>), <<message>> \o args)

\* TestCase.fail
fail(st) == expect(st, FALSE, Str(<<"failure">>), <<>>)

\* TestCase.assert_that; "# FAILED ASSERTION: " + message needs a str
assert_that(st, condition, message, args) ==
  IF condition THEN st
  ELSE LET s1 == record_failure(st, "FAILED ASSERTION", message, args)
           s2 == IF message.type # "str" THEN Raise(s1, "TypeError")
                 ELSE print_out(s1, Str(<<"# FAILED ASSERTION: ">> \o message.toks), args)
       IN IF s2.raised # "none" THEN s2 ELSE Raise(s2, "TestFailure")

\* TestCase.abort
abort(st) == assert_that(st, FALSE, Str(<<"abort called">>), <<>>)

\* _call_external that does not refresh the symbol _last_call_output
call_external_stale_symbol(st, o) ==
  LET s1 == [st EXCEPT !.last_return_code = 0, !.last_call_output = ""]
  IN IF o.launched = "interrupt" THEN Raise(s1, "KeyboardInterrupt")
     ELSE IF o.launched = "fault" THEN Raise(s1, "OSError")
     ELSE Return([s1 EXCEPT !.last_return_code = o.rc, !.last_call_output = o.out],
                 o.rc)

\* _call_external that leaves last_return_code as reset
call_external_keeps_reset(st, o) ==
  LET s1 == [st EXCEPT !.last_return_code = 0, !.last_call_output = ""]
  IN IF o.launched = "interrupt" THEN Raise(s1, "KeyboardInterrupt")
     ELSE IF o.launched = "fault" THEN Raise(s1, "OSError")
     ELSE Return([s1 EXCEPT !.last_call_output = o.out,
                            !.local_symbols =
                               [n \in (DOMAIN @) \cup {"_last_call_output"} |->
                                  IF n = "_last_call_output" THEN o.out ELSE @[n]]],
                 o.rc)

\* TestCase._call_external; o is what the subprocess does.  The print_out of
\* the command line is given no arguments and returns.
call_external(st, o) ==
  LET s1 == [st EXCEPT !.last_return_code = 0, !.last_call_output = ""]
  IN IF o.launched = "interrupt" THEN Raise(s1, "KeyboardInterrupt")
     ELSE IF o.launched = "fault" THEN Raise(s1, "OSError")
     ELSE Return([s1 EXCEPT !.last_return_code = o.rc,
                            !.last_call_output = o.out,
                            !.local_symbols =
                               [n \in (DOMAIN @) \cup {"_last_call_output"} |->
                                  IF n = "_last_call_output" THEN o.out ELSE @[n]]],
                 o.rc)

\* TestCase.call_allow_error
call_allow_error(st, o) ==
  IF ~o.resolved THEN Raise(st, "CallError") ELSE call_external(st, o)

\* TestCase.call_no_error
call_no_error(st, o) ==
  LET s1 == call_allow_error(st, o)
  IN IF s1.raised # "none" THEN s1
     ELSE assert_that(s1, s1.ret = 0,
                      Str(<<"call failed: \"", "{}", "\"">>), <<"args">>)

\* TestCase.assert_success: `mesage` receives the default, `message` is passed on
assert_success(st, message, args) ==
  assert_that(st, st.last_return_code = 0, message, args)

\* TestCase.assert_failure
assert_failure(st, message, args) ==
  LET m == IF message = EmptyList THEN Str(<<"expected last call to fail">>)
           ELSE message
  IN assert_that(st, st.last_return_code # 0, m, args)

\* TestCase.yaml_get_uuid: binds the variable, the handler is not called
yaml_get_uuid(st, var_name) ==
  [st EXCEPT !.local_symbols =
     [n \in (DOMAIN @) \cup {var_name} |-> IF n = var_name THEN "uuid4" ELSE @[n]]]

\* self.local_symbols[name] = value
setitem(symbols, name, value) ==
  [n \in (DOMAIN symbols) \cup {name} |-> IF n = name THEN value ELSE symbols[n]]

\* TestCase.shell: format_string(cmd + " {}"*len(args), *args), then the call
RECURSIVE shell_placeholders(_)
shell_placeholders(n) == IF n <= 0 THEN <<>> ELSE <<" ", "{}">> \o shell_placeholders(n - 1)

\* shell that requires the command to succeed, as call does
shell_checks_exit(st, cmd, args, o) ==
  LET r == format_string(Str(cmd.toks \o shell_placeholders(Len(args))), args)
      s1 == call_external(st, o)
  IN IF r.raised # "none" THEN Raise(st, r.raised)
     ELSE IF s1.raised # "none" THEN s1
     ELSE assert_that(s1, s1.ret = 0, Str(<<"call failed: \"", "{}", "\"">>), <<"args">>)

shell(st, cmd, args, o) ==
  LET r == format_string(Str(cmd.toks \o shell_placeholders(Len(args))), args)
  IN IF r.raised # "none" THEN Raise(st, r.raised) ELSE call_external(st, o)

\* for variable_name in group_variables: self.local_symbols[variable_name] = None
RECURSIVE reset_groups(_, _)
reset_groups(symbols, names) ==
  IF names = <<>> THEN symbols
  ELSE reset_groups(setitem(symbols, Head(names), PyNone), Tail(names))

\* a loop that binds every name of group_variables to the first capture
RECURSIVE bind_groups_first_capture(_, _, _, _)
bind_groups_first_capture(symbols, names, captures, i) ==
  IF i > Len(names) THEN symbols
  ELSE bind_groups_first_capture(setitem(symbols, names[i], captures[1]),
                                 names, captures, i + 1)

\* for idx, variable_name in enumerate(group_variables): bind captures[idx]
RECURSIVE bind_groups(_, _, _, _)
bind_groups(symbols, names, captures, i) ==
  IF i > Len(names) THEN symbols
  ELSE bind_groups(IF Len(captures) >= i THEN setitem(symbols, names[i], captures[i])
                   ELSE symbols,
                   names, captures, i + 1)

\* `not x` for a str or None
falsy(x) == x \in {PyNone, ""}

\* extract_match that clears its variables before it validates its arguments
extract_match_binds_first(st, pattern, variable, group_variables) ==
  LET s1 == [st EXCEPT !.local_symbols =
                          reset_groups(setitem(@, variable, PyNone), group_variables)]
  IN IF falsy(pattern) THEN Raise(s1, "ConfigError")
     ELSE IF falsy(variable) /\ group_variables = <<>> THEN Raise(s1, "ConfigError")
     ELSE IF ~falsy(variable) /\ group_variables # <<>> THEN Raise(s1, "ConfigError")
     ELSE s1

\* TestCase.extract_match; variable is None and group_variables is empty when
\* not given
extract_match(st, pattern, variable, group_variables) ==
  IF falsy(pattern) THEN Raise(st, "ConfigError")
  ELSE IF falsy(variable) /\ group_variables = <<>> THEN Raise(st, "ConfigError")
  ELSE IF ~falsy(variable) /\ group_variables # <<>> THEN Raise(st, "ConfigError")
  ELSE LET s1 == reset_groups(setitem(st.local_symbols, variable, PyNone),
                              group_variables)
           match == re_search(pattern, Chars[st.last_call_output])
           captures == match.groups
           s2 == IF falsy(variable) THEN s1 ELSE setitem(s1, variable, captures[1])
       IN [st EXCEPT !.local_symbols =
             IF match.matched /\ captures # <<>>
             THEN bind_groups(s2, group_variables, captures, 1)
             ELSE s1]

\* A map of a declarative entry is given as the sequence <<key, value, ...>>,
\* a list of one-key maps likewise.  dict.get(key):
RECURSIVE yaml_get(_, _)
yaml_get(parts, key) ==
  IF Len(parts) < 2 THEN PyNone
  ELSE IF parts[1] = key THEN parts[2]
  ELSE yaml_get(Tail(Tail(parts)), key)

\* the items of the list under `groups`, given as repeated <<"groups", item>>
RECURSIVE yaml_get_list(_, _)
yaml_get_list(parts, key) ==
  IF Len(parts) < 2 THEN <<>>
  ELSE (IF parts[1] = key THEN <<parts[2]>> ELSE <<>>)
       \o yaml_get_list(Tail(Tail(parts)), key)

\* os.environ
Environ == [v \in {"HOME"} |-> "/root"]

\* TestCase.yaml_get_env / params_for_set / get_env on the map {name: ...,
\* variable: ...}
yaml_get_env(st, parts) ==
  IF Len(parts) < 4 THEN Raise(st, "ValueError")
  ELSE IF yaml_get(parts, "variable") = PyNone \/ yaml_get(parts, "name") = PyNone
       THEN Raise(st, "KeyError")
  ELSE IF yaml_get(parts, "name") \notin DOMAIN Environ THEN Raise(st, "KeyError")
  ELSE [st EXCEPT !.local_symbols =
          setitem(@, yaml_get(parts, "variable"), Environ[yaml_get(parts, "name")])]

\* TestCase.yaml_extract_match: [pattern, variable, groups]
yaml_extract_match(parts) ==
  [pattern |-> yaml_get(parts, "pattern"),
   variable |-> yaml_get(parts, "variable"),
   groups |-> yaml_get_list(parts, "groups")]

\* TestCase.last_output_contains with case_sensitive=False; value.lower()
\* needs a str
last_output_contains(st, substr) ==
  contains(lower(Chars[substr]), lower(Chars[st.last_call_output]))

\* the checker returned by TestCase.contain_checker(assert_that, which,
\* contains), and its _check_several; message is '' (<<>>) when not given
check_several(st, which, contains_, message, values) ==
  LET condition(v) == last_output_contains(st, v) = contains_
      default == Str(<<"required, but did not find, ", which,
                       " of the following values in the preceding output: ">>
                     \o values)
  IN IF \E i \in 1..Len(values) : values[i] = PyNone THEN Raise(st, "AttributeError")
     ELSE assert_that(st,
                      IF which = "all"
                      THEN \A i \in 1..Len(values) : condition(values[i])
                      ELSE \E i \in 1..Len(values) : condition(values[i]),
                      IF message = <<>> THEN default ELSE Str(message), <<>>)

\* self.builtins: (which, contains) of each containment directive
Checkers ==
  [d \in {"assert_contains_any", "assert_excludes", "assert_not_contains",
          "assert_contains", "assert_excludes_any"} |->
     CASE d = "assert_contains_any" -> [which |-> "any", contains |-> TRUE]
       [] d = "assert_excludes" -> [which |-> "all", contains |-> FALSE]
       [] d = "assert_not_contains" -> [which |-> "all", contains |-> FALSE]
       [] d = "assert_contains" -> [which |-> "all", contains |-> TRUE]
       [] d = "assert_excludes_any" -> [which |-> "any", contains |-> FALSE]]

\* TestCase.get_variable_or_literal on the one-key map <<key, item>>
get_variable_or_literal(st, key, item) ==
  IF key = "variable"
  THEN (IF item \in DOMAIN st.local_symbols
        THEN [raised |-> "none", item |-> st.local_symbols[item]]
        ELSE [raised |-> "KeyError", item |-> item])
  ELSE IF key # "literal" THEN [raised |-> "ConfigError", item |-> item]
  ELSE [raised |-> "none", item |-> item]

\* TestCase.params_for_contains / string_and_params / get_yaml_values on the
\* list of one-key maps given as <<key, item, ...>>: [raised, message, values]
params_for_contains(st, parts) ==
  IF Len(parts) = 0
  THEN [raised |-> "IndexError", message |-> <<>>, values |-> <<>>]
  ELSE LET has_message == parts[1] = "message"
           rest == IF has_message THEN Tail(Tail(parts)) ELSE parts
           got == [i \in 1..(Len(rest) \div 2) |->
                     get_variable_or_literal(st, rest[2 * i - 1], rest[2 * i])]
           bad == {i \in DOMAIN got : got[i].raised # "none"}
       IN [raised |-> IF bad = {} THEN "none"
                      ELSE got[CHOOSE i \in bad : \A j \in bad : i <= j].raised,
           message |-> IF has_message THEN <<parts[2]>> ELSE <<>>,
           values |-> [i \in DOMAIN got |-> got[i].item]]

\* the containment directive of a declarative entry
yaml_contains(st, directive, parts) ==
  LET p == params_for_contains(st, parts)
  IN IF p.raised # "none" THEN Raise(st, p.raised)
     ELSE check_several(st, Checkers[directive].which, Checkers[directive].contains,
                        p.message, p.values)

\* The embedded programs of the `code` directive
Codes == {"fail()", "expect(False, 'm')", "expect(True, 'm')",
          "assert_that(False, 'm')", "assert_that(False, '{}-{}', 1)",
          "abort()", "raise Exception", "raise KeyboardInterrupt"}

\* TestCase.execute: exec(code, None, self.local_symbols)
execute(st, code) ==
  CASE code = "fail()" -> fail(st)
    [] code = "expect(False, 'm')" -> expect(st, FALSE, Str(<<"m">>), <<>>)
    [] code = "expect(True, 'm')" -> expect(st, TRUE, Str(<<"m">>), <<>>)
    [] code = "assert_that(False, 'm')" -> assert_that(st, FALSE, Str(<<"m">>), <<>>)
    [] code = "assert_that(False, '{}-{}', 1)" ->
         assert_that(st, FALSE, Str(<<"{}", "-", "{}">>), <<"1">>)
    [] code = "abort()" -> abort(st)
    [] code = "raise Exception" -> Raise(st, "Exception")
    [] code = "raise KeyboardInterrupt" -> Raise(st, "KeyboardInterrupt")
    [] OTHER -> Raise(st, "SyntaxError")

\* ---------------------------------------------------------------- dispatch
\* self.builtins: the directive names
Builtins == {"testcase_num", "testcase_id", "_last_call_output", "call",
             "call_may_fail", "shell", "uuid", "env", "log", "extract_match",
             "code", "fail", "expect", "abort", "assert_that",
             "assert_contains_any", "assert_excludes", "assert_not_contains",
             "assert_contains", "assert_excludes_any", "assert_success",
             "assert_failure"}

\* a dispatch table in which `fail` has a yaml_prep function
yaml_prep_fail_declarative(directive) ==
  CASE directive \in {"call", "call_may_fail"} -> "params_for_call"
    [] directive \in {"shell", "log", "assert_success", "assert_failure", "fail"} ->
         "yaml_args_string"
    [] directive = "uuid" -> "yaml_get_uuid"
    [] directive = "env" -> "yaml_get_env"
    [] directive = "extract_match" -> "yaml_extract_match"
    [] directive = "code" -> "lambda"
    [] directive \in {"assert_contains_any", "assert_excludes", "assert_not_contains",
                      "assert_contains", "assert_excludes_any"} -> "params_for_contains"
    [] OTHER -> "None"

\* self.builtins[name][1]: the yaml_prep function, "None" when there is none
yaml_prep(directive) ==
  CASE directive \in {"call", "call_may_fail"} -> "params_for_call"
    [] directive \in {"shell", "log", "assert_success", "assert_failure"} -> "yaml_args_string"
    [] directive = "uuid" -> "yaml_get_uuid"
    [] directive = "env" -> "yaml_get_env"
    [] directive = "extract_match" -> "yaml_extract_match"
    [] directive = "code" -> "lambda"
    [] directive \in {"assert_contains_any", "assert_excludes", "assert_not_contains",
                      "assert_contains", "assert_excludes_any"} -> "params_for_contains"
    [] OTHER -> "None"

\* '"{}"'.format(str(p)) for the literals of the entries
quoted(p) == IF p = "v" THEN "\"v\"" ELSE IF p = "m" THEN "\"m\"" ELSE "\"\""

\* TestCase.lookup_values: the symbol's value, or the quoted string itself
lookup_values(st, strings) ==
  [i \in 1..Len(strings) |->
     IF strings[i] \in DOMAIN st.local_symbols THEN st.local_symbols[strings[i]]
     ELSE quoted(strings[i])]

\* The tokens of the print strings of the entries
Templates ==
  [s \in {"{}-{}", "hello {name}"} |->
     IF s = "{}-{}" THEN <<"{}", "-", "{}">> ELSE <<"hello ", "{name}">>]
tokens(s) == IF s \in DOMAIN Templates THEN Templates[s] ELSE <<s>>

\* TestCase.yaml_args_string: [message, args] of the handler call
yaml_args_string(st, parts) ==
  IF Len(parts) = 0 THEN [message |-> EmptyList, args |-> <<>>]
  ELSE [message |-> Str(tokens(parts[1])), args |-> lookup_values(st, Tail(parts))]

\* TestCase.run_segment; spec_segment is the sequence of the entry's items
run_segment(st, segment, o) ==
  IF Len(segment) > 1 THEN Raise(st, "TypeError")  \* ConfigError() lacks its msg
  ELSE IF Len(segment) = 0 THEN st
  ELSE LET directive == segment[1].directive
           parts == segment[1].segment
       IN IF directive \notin Builtins THEN Raise(st, "ConfigError")
          ELSE IF yaml_prep(directive) = "None" THEN Raise(st, "ConfigError")
          ELSE CASE directive = "call" -> call_no_error(st, o)
                 [] directive = "call_may_fail" -> call_allow_error(st, o)
                 [] directive = "uuid" -> yaml_get_uuid(st, parts[1])
                 [] directive = "log" ->
                      IF Len(parts) = 0 THEN Raise(st, "TypeError")
                      ELSE print_out(st, yaml_args_string(st, parts).message,
                                     yaml_args_string(st, parts).args)
                 [] directive = "code" -> execute(st, parts[1])
                 [] directive = "fail" -> fail(st)
                 [] directive = "abort" -> abort(st)
                 [] directive = "assert_success" ->
                      assert_success(st, yaml_args_string(st, parts).message,
                                     yaml_args_string(st, parts).args)
                 [] directive = "assert_failure" ->
                      assert_failure(st, yaml_args_string(st, parts).message,
                                     yaml_args_string(st, parts).args)
                 [] directive = "shell" ->
                      IF Len(parts) = 0 THEN Raise(st, "TypeError")
                      ELSE shell(st, yaml_args_string(st, parts).message,
                                 yaml_args_string(st, parts).args, o)
                 [] directive = "env" -> yaml_get_env(st, parts)
                 [] directive = "extract_match" ->
                      extract_match(st, yaml_extract_match(parts).pattern,
                                    yaml_extract_match(parts).variable,
                                    yaml_extract_match(parts).groups)
                 [] directive \in DOMAIN Checkers -> yaml_contains(st, directive, parts)

\* ---------------------------------------------------------------- run()
\* except clauses that tag every record of SETUP/TEST with the first stage
except_clause_first_stage(stage, exc) ==
  IF exc = "TestFailure" /\ stage # "TEARDOWN" THEN <<>>
  ELSE <<[status |-> CASE exc = "TestFailure" -> "unexpected TEST FAILURE"
                       [] exc = "CallError" -> "CALL ERROR"
                       [] exc = "KeyboardInterrupt" -> "KEYBOARD INTERRUPT"
                       [] OTHER -> "UNHANDLED EXCEPTION",
           stage |-> IF stage = "TEARDOWN" THEN "TEARDOWN" ELSE "SETUP",
           message |-> Str(<<exc>>)]>>

\* The records appended by the except clauses of run() for an exception
\* caught in `stage`; their print_out calls are given no arguments and return
except_clause(stage, exc) ==
  IF stage = "TEARDOWN"
  THEN CASE exc = "TestFailure" ->
              <<[status |-> "unexpected TEST FAILURE", stage |-> "TEARDOWN",
                 message |-> Str(<<"test failure in stage TEARDOWN">>)]>>
         [] exc = "CallError" ->
              <<[status |-> "CALL ERROR", stage |-> "TEARDOWN",
                 message |-> Str(<<"could not resolve call: ", "cause">>)]>>
         [] exc = "KeyboardInterrupt" ->
              <<[status |-> "KEYBOARD INTERRUPT", stage |-> "TEARDOWN",
                 message |-> Str(<<"keyboard interrupt detected">>)]>>
         [] OTHER ->
              <<[status |-> "UNHANDLED EXCEPTION", stage |-> "TEARDOWN",
                 message |-> Str(<<exc, "traceback">>)]>>
  ELSE CASE exc = "TestFailure" -> <<>>
         [] exc = "CallError" ->
              <<[status |-> "CALL ERROR", stage |-> stage,
                 message |-> Str(<<"could not resolve call: ", "cause">>)]>>
         [] exc = "KeyboardInterrupt" ->
              <<[status |-> "KEYBOARD INTERRUPT", stage |-> stage,
                 message |-> Str(<<"keyboard interrupt detected">>)]>>
         [] OTHER ->
              <<[status |-> "UNHANDLED EXCEPTION", stage |-> stage,
                 message |-> Str(<<exc, "traceback">>)]>>

\* except clauses none of which re-raises
reraises_never(exc) == FALSE

\* Whether the except clause ends with `raise`
reraises(exc) == exc = "KeyboardInterrupt"

\* a driver without `finally`: the re-raised interrupt leaves run() at once
finally_clause_no_finally(stage, exc) ==
  IF exc = "KeyboardInterrupt" THEN "raised" ELSE "TEARDOWN"

\* a driver with one try per stage: a stage-abort in SETUP goes on to TEST
finally_clause_per_stage(stage, exc) ==
  IF stage = "SETUP" /\ exc = "TestFailure" THEN "TEST" ELSE "TEARDOWN"

\* Where control goes when the try around SETUP/TEST is left in `stage` with
\* `exc` ("none": the loops completed): the finally clause
finally_clause(stage, exc) == "TEARDOWN"

\* a TEARDOWN try whose except clauses all re-raise
after_teardown_propagates(exc, outer) ==
  IF exc # "none" \/ reraises(outer) THEN "raised" ELSE "summary"

\* Where control goes when the try around TEARDOWN is left with `exc`, the
\* try around SETUP/TEST having been left with `outer`
after_teardown(exc, outer) ==
  IF reraises(exc) \/ reraises(outer) THEN "raised" ELSE "summary"

\* a summary that looks at the errors first
summary_status_errors_first(fs, es) ==
  IF Len(es) > 0 THEN "ERRORED" ELSE IF Len(fs) > 0 THEN "FAILED" ELSE "PASSED"

\* The summary line of run()
summary_status(fs, es) ==
  IF Len(fs) > 0 THEN "FAILED" ELSE IF Len(es) > 0 THEN "ERRORED" ELSE "PASSED"

\* The first exception raised by format_string over the logged records
RECURSIVE first_format_error(_)
first_format_error(records) ==
  IF records = <<>> THEN "none"
  ELSE LET r == format_string(Head(records).message, Head(records).args)
       IN IF r.raised # "none" THEN r.raised ELSE first_format_error(Tail(records))

\* The exception raised while logging the summary, "none" if there is none
summary_raises(fs, es) ==
  IF Len(fs) > 0 THEN first_format_error(fs)
  ELSE first_format_error([i \in 1..Len(es) |-> [message |-> es[i].message, args |-> <<>>]])

\* len(self.failures) + len(self.errors)
total_problems(fs, es) == Len(fs) + Len(es)

\* ---------------------------------------------------------------- state
Self == [failures |-> failures, last_return_code |-> last_return_code,
         last_call_output |-> last_call_output, local_symbols |-> local_symbols,
         raised |-> "none", ret |-> -1]

NoCall == [resolved |-> TRUE, launched |-> "no", rc |-> 0, out |-> ""]
\* What the environment and the subprocess do for one call: the target does
\* not resolve, the launch faults, an interrupt signal arrives while the
\* command runs, or the command exits with rc and output
CallOutcomes ==
  {[resolved |-> FALSE, launched |-> "no", rc |-> 0, out |-> ""],
   [resolved |-> TRUE, launched |-> "fault", rc |-> 0, out |-> ""],
   [resolved |-> TRUE, launched |-> "interrupt", rc |-> 0, out |-> ""]}
  \cup [resolved : {TRUE}, launched : {"ok"}, rc : ExitCodes, out : Outputs]

Entry(directive, parts) == <<[directive |-> directive, segment |-> parts]>>

\* TestCase.__init__
Init ==
  /\ pc = "init"
  /\ idx = 0
  /\ nsegments \in {[s \in Stages |-> IF s = "SETUP" THEN a
                                      ELSE IF s = "TEST" THEN b ELSE c] :
                       a \in 0..MaxSetup, b \in 0..MaxTest, c \in 0..MaxTeardown}
  /\ spec_segment = <<>>
  /\ failures = <<>>
  /\ errors = <<>>
  /\ last_return_code = 0
  /\ last_call_output = ""
  /\ local_symbols = [n \in {"testcase_num", "testcase_id", "_last_call_output"} |->
                        IF n = "testcase_num" THEN "0"
                        ELSE IF n = "testcase_id" THEN "label" ELSE ""]
  /\ caught = [exc |-> "none", stage |-> "none"]
  /\ caught_teardown = "none"
  /\ ran = [s \in Stages |-> 0]
  /\ teardown_started = 0
  /\ status_logged = "none"
  /\ result = -1
  /\ run_raised = "none"
  /\ outcome = NoCall
  /\ asserted = {}

\* run() up to the first stage
Start ==
  /\ pc = "init"
  /\ pc' = "SETUP"
  /\ idx' = 0
  /\ UNCHANGED <<nsegments, spec_segment, failures, errors, last_return_code,
                 last_call_output, local_symbols, caught, caught_teardown, ran,
                 teardown_started, status_logged, result, run_raised, outcome, asserted>>

\* One iteration of run_segments_of: run_segment(spec_segment) left the case
\* as `st`; an exception unwinds to the except clauses of run()
Step(segment, o, st) ==
  /\ pc \in Stages
  /\ idx < nsegments[pc]
  /\ spec_segment' = segment
  /\ outcome' = o
  /\ asserted' = IF /\ Len(st.failures) > Len(failures)
                    /\ st.failures[Len(st.failures)].status = "FAILED ASSERTION"
                 THEN asserted \cup {pc} ELSE asserted
  /\ failures' = st.failures
  /\ last_return_code' = st.last_return_code
  /\ last_call_output' = st.last_call_output
  /\ local_symbols' = st.local_symbols
  /\ ran' = [ran EXCEPT ![pc] = @ + 1]
  /\ errors' = IF st.raised = "none" THEN errors
               ELSE errors \o except_clause(pc, st.raised)
  /\ IF st.raised = "none"
     THEN /\ idx' = idx + 1
          /\ UNCHANGED <<pc, caught, caught_teardown, teardown_started, run_raised>>
     ELSE IF pc = "TEARDOWN"
     THEN /\ caught_teardown' = st.raised
          /\ pc' = after_teardown(st.raised, caught.exc)
          /\ run_raised' = IF pc' = "raised" THEN "KeyboardInterrupt" ELSE "none"
          /\ UNCHANGED <<idx, caught, teardown_started>>
     ELSE /\ caught' = [exc |-> st.raised, stage |-> pc]
          /\ pc' = finally_clause(pc, st.raised)
          /\ idx' = 0
          /\ teardown_started' = IF pc' = "TEARDOWN" THEN teardown_started + 1
                                 ELSE teardown_started
          /\ run_raised' = IF pc' = "raised" THEN st.raised ELSE "none"
          /\ UNCHANGED caught_teardown
  /\ UNCHANGED <<nsegments, status_logged, result>>

\* `call`, `call_may_fail` and `shell` entries; a shell command is not resolved
Call ==
  \E d \in {"call", "call_may_fail", "shell"}, o \in CallOutcomes :
    /\ d = "shell" => o.resolved
    /\ Step(Entry(d, <<"target">>), o, run_segment(Self, Entry(d, <<"target">>), o))

\* `code` entries
Code ==
  \E c \in Codes :
    Step(Entry("code", <<c>>), NoCall, run_segment(Self, Entry("code", <<c>>), NoCall))

\* `assert_success` and `assert_failure` entries, without or with a message
AssertExit ==
  \E d \in {"assert_success", "assert_failure"}, parts \in {<<>>, <<"m">>, <<"m", "v">>} :
    Step(Entry(d, parts), NoCall, run_segment(Self, Entry(d, parts), NoCall))

\* `uuid` and `log` entries
Misc ==
  \E e \in {Entry("uuid", <<"v">>), Entry("log", <<"m">>)} :
    Step(e, NoCall, run_segment(Self, e, NoCall))

\* Entries that name no directive with a yaml_prep function
NotDeclarative ==
  \E d \in {"bogus", "fail", "expect", "abort", "assert_that", "testcase_num"} :
    Step(Entry(d, <<"m">>), NoCall, run_segment(Self, Entry(d, <<"m">>), NoCall))

\* Entries with no key or with two keys
Malformed ==
  \E e \in {<<>>, Entry("log", <<"m">>) \o Entry("uuid", <<"v">>)} :
    Step(e, NoCall, run_segment(Self, e, NoCall))

\* The loop over a stage's entries ends: SETUP -> TEST -> finally
NextStage ==
  /\ pc \in {"SETUP", "TEST"}
  /\ idx = nsegments[pc]
  /\ pc' = IF pc = "SETUP" THEN "TEST" ELSE finally_clause(pc, "none")
  /\ idx' = 0
  /\ teardown_started' = IF pc' = "TEARDOWN" THEN teardown_started + 1
                         ELSE teardown_started
  /\ UNCHANGED <<nsegments, spec_segment, failures, errors, last_return_code,
                 last_call_output, local_symbols, caught, caught_teardown, ran,
                 status_logged, result, run_raised, outcome, asserted>>

\* The TEARDOWN loop ends without an exception
EndTeardown ==
  /\ pc = "TEARDOWN"
  /\ idx = nsegments[pc]
  /\ pc' = after_teardown("none", caught.exc)
  /\ run_raised' = IF pc' = "raised" THEN caught.exc ELSE "none"
  /\ UNCHANGED <<idx, nsegments, spec_segment, failures, errors, last_return_code,
                 last_call_output, local_symbols, caught, caught_teardown, ran,
                 teardown_started, status_logged, result, outcome, asserted>>

\* The summary of run() and its return
Summary ==
  /\ pc = "summary"
  /\ status_logged' = summary_status(failures, errors)
  /\ IF summary_raises(failures, errors) = "none"
     THEN /\ pc' = "returned"
          /\ result' = total_problems(failures, errors)
          /\ UNCHANGED run_raised
     ELSE /\ pc' = "raised"
          /\ run_raised' = summary_raises(failures, errors)
          /\ UNCHANGED result
  /\ UNCHANGED <<idx, nsegments, spec_segment, failures, errors, last_return_code,
                 last_call_output, local_symbols, caught, caught_teardown, ran,
                 teardown_started, outcome, asserted>>

Next ==
  \/ Start
  \/ Call
  \/ Code
  \/ AssertExit
  \/ Misc
  \/ NotDeclarative
  \/ Malformed
  \/ NextStage
  \/ EndTeardown
  \/ Summary

Spec == Init /\ [][Next]_vars

\* run() when every directive terminates: each step that can be taken is taken
FairSpec == Spec /\ WF_vars(Next)

\* The fields of a case after TestCase.__init__
Fresh ==
  /\ pc = "init"
  /\ idx = 0
  /\ spec_segment = <<>>
  /\ failures = <<>>
  /\ errors = <<>>
  /\ last_return_code = 0
  /\ last_call_output = ""
  /\ local_symbols = [n \in {"testcase_num", "testcase_id", "_last_call_output"} |->
                        IF n = "testcase_num" THEN "0"
                        ELSE IF n = "testcase_id" THEN "label" ELSE ""]
  /\ caught = [exc |-> "none", stage |-> "none"]
  /\ caught_teardown = "none"
  /\ ran = [s \in Stages |-> 0]
  /\ teardown_started = 0
  /\ status_logged = "none"
  /\ result = -1
  /\ run_raised = "none"
  /\ outcome = NoCall
  /\ asserted = {}

\* Test cases with an empty SETUP and a long TEARDOWN
InitTeardown ==
  /\ nsegments \in {[s \in Stages |-> IF s = "SETUP" THEN 0
                                      ELSE IF s = "TEST" THEN b ELSE c] :
                       b \in 0..1, c \in 0..(MaxTeardown + 1)}
  /\ Fresh

SpecTeardown == InitTeardown /\ [][Next]_vars

\* ---------------------------------------------------------------- checks
\* Test cases that invoke commands in SETUP and examine the captured output
\* in TEST: the containment directives, extract_match, env and log.
MaxChecks == 1

CheckOutputs == {"", "count: 42", "a1 B22"}
CheckValues == {"COUNT", "zz", "b2"}

InitChecks ==
  /\ nsegments \in {[s \in Stages |-> IF s = "SETUP" THEN a
                                      ELSE IF s = "TEST" THEN b ELSE 0] :
                       a \in 0..MaxSetup, b \in 0..MaxChecks}
  /\ Fresh

\* SETUP: `call_may_fail` entries whose command prints one of the texts, or
\* whose target does not resolve
Invoke ==
  /\ pc = "SETUP"
  /\ \E o \in {[resolved |-> FALSE, launched |-> "no", rc |-> 0, out |-> ""]}
              \cup [resolved : {TRUE}, launched : {"ok"}, rc : {0, 1}, out : CheckOutputs] :
       Step(Entry("call_may_fail", <<"target">>), o,
            run_segment(Self, Entry("call_may_fail", <<"target">>), o))

\* the lists of values of the containment entries
ContainsParts ==
  {<<>>, <<"message", "m">>, <<"variable", "n">>, <<"variable", "nope">>,
   <<"foo", "zz">>}
  \cup {<<"literal", a>> : a \in CheckValues}
  \cup {<<"message", "m", "literal", a>> : a \in CheckValues}
  \cup {<<"literal", a, "literal", b>> : a \in CheckValues, b \in CheckValues}

\* TEST: entries of the five containment directives
Contains ==
  /\ pc = "TEST"
  /\ \E d \in DOMAIN Checkers, parts \in ContainsParts :
       Step(Entry(d, parts), NoCall, run_segment(Self, Entry(d, parts), NoCall))

\* the maps of the extract_match entries
ExtractParts ==
  {<<"pattern", p, "variable", "n">> : p \in DOMAIN Patterns}
  \cup {<<"pattern", p, "groups", "a">> : p \in DOMAIN Patterns}
  \cup {<<"pattern", p, "groups", "a", "groups", "b">> : p \in DOMAIN Patterns}
  \cup {<<"pattern", p, "groups", "a", "groups", "b", "groups", "c">> :
          p \in DOMAIN Patterns}
  \cup {<<"variable", "n">>, <<"groups", "a">>, <<"pattern", "", "variable", "n">>,
        <<"pattern", "(\\d+)">>, <<"pattern", "(\\d+)", "variable", "n", "groups", "a">>,
        <<"pattern", "(\\d+)", "variable", "testcase_id", "groups", "a">>,
        <<"variable", "testcase_id">>,
        <<"pattern", "(\\d+)", "variable", "_last_call_output">>}

\* TEST: `extract_match` entries
ExtractMatch ==
  /\ pc = "TEST"
  /\ \E parts \in ExtractParts :
       Step(Entry("extract_match", parts), NoCall,
            run_segment(Self, Entry("extract_match", parts), NoCall))

\* the print strings and arguments of the log entries
LogParts ==
  {<<t>> \o args : t \in {"m", "{}-{}", "hello {name}"},
                   args \in {<<>>, <<"v">>, <<"v", "m">>, <<"v", "m", "v">>}}

\* TEST: `log` and `env` entries
LogEnv ==
  /\ pc = "TEST"
  /\ \E e \in {Entry("log", parts) : parts \in LogParts}
              \cup {Entry("env", <<"name", "HOME", "variable", "h">>),
                    Entry("env", <<"name", "NOPE", "variable", "h">>),
                    Entry("env", <<"name", "HOME">>)} :
       Step(e, NoCall, run_segment(Self, e, NoCall))

NextChecks ==
  \/ Start
  \/ Invoke
  \/ Contains
  \/ ExtractMatch
  \/ LogEnv
  \/ NextStage
  \/ EndTeardown
  \/ Summary

SpecChecks == InitChecks /\ [][NextChecks]_vars

\* ---------------------------------------------------------------- properties
Done == pc \in {"summary", "returned", "raised"}
TeardownComplete == ran["TEARDOWN"] = nsegments["TEARDOWN"]
Fault(exc) == exc \notin {"none", "TestFailure", "KeyboardInterrupt"}
InterruptErrors(stage) ==
  {i \in 1..Len(errors) :
     errors[i].status = "KEYBOARD INTERRUPT" /\ errors[i].stage = stage}
\* the exception the driver caught in the step just taken
CaughtNow(stage) == IF stage = "TEARDOWN" THEN caught_teardown' ELSE caught'.exc

\* C1: whatever happens in SETUP and TEST, the TEARDOWN try block is entered
\* exactly once: never before SETUP/TEST are left, always by the time run()
\* is done, and no SETUP/TEST entry runs once it has been entered.
C1_TeardownOnce ==
  /\ [](/\ teardown_started <= 1
        /\ pc \in {"init", "SETUP", "TEST"} =>
             teardown_started = 0 /\ ran["TEARDOWN"] = 0
        /\ pc \in {"TEARDOWN", "summary", "returned", "raised"} =>
             teardown_started = 1)
  /\ [][teardown_started = 1 =>
          ran'["SETUP"] = ran["SETUP"] /\ ran'["TEST"] = ran["TEST"]]_vars

C1_Witness ==
  /\ pc = "raised"
  /\ caught.exc = "KeyboardInterrupt"
  /\ teardown_started = 1
  /\ ran["TEARDOWN"] = 1

\* C2: once assert_that has been called with a false condition in TEST, no
\* further TEST entry runs, every TEARDOWN entry runs unless TEARDOWN itself
\* raised, and run() returns a value of at least 1 (an interrupt delivered
\* in TEARDOWN is the one exit by exception that run() is meant to have
\* then).
C2_AssertInTest ==
  /\ []("TEST" \in asserted =>
          /\ (Done /\ caught_teardown = "none") => TeardownComplete
          /\ (pc \in {"returned", "raised"} /\ caught_teardown # "KeyboardInterrupt")
               => (pc = "returned" /\ result >= 1))
  /\ []["TEST" \in asserted => ran'["TEST"] = ran["TEST"]]_vars

\* The same property for the runs in which run() returns; it holds.
AssertInTest_WhenReturned ==
  /\ []("TEST" \in asserted =>
          /\ (Done /\ caught_teardown = "none") => TeardownComplete
          /\ pc = "returned" => result >= 1)
  /\ []["TEST" \in asserted => ran'["TEST"] = ran["TEST"]]_vars

\* C3 as stated: after a failed assertion in SETUP the TEST entries are still
\* all executed before TEARDOWN.
C3_Original ==
  ("SETUP" \in asserted /\ teardown_started = 1) =>
     ran["TEST"] = nsegments["TEST"]

\* C3 amended: a failed assertion in SETUP leaves SETUP and skips the TEST
\* stage altogether; the driver is in TEARDOWN or past it and no TEST entry
\* has run.
C3_SetupAbortSkipsTest ==
  "SETUP" \in asserted =>
     /\ pc \in {"TEARDOWN", "summary", "returned", "raised"}
     /\ teardown_started = 1
     /\ ran["TEST"] = 0

C3_Witness ==
  /\ "SETUP" \in asserted
  /\ nsegments["TEST"] >= 1
  /\ pc = "returned"
  /\ ran["TEARDOWN"] = 1

\* C4: a code entry of TEST that calls fail() or expect(False, ...) appends
\* exactly one FAILED EXPECTATION record, appends no error and leaves the
\* driver in TEST at the next entry.
C4_ExpectContinues ==
  [][(/\ pc = "TEST"
      /\ ran'["TEST"] = ran["TEST"] + 1
      /\ spec_segment' \in {Entry("code", <<"fail()">>),
                            Entry("code", <<"expect(False, 'm')">>)})
     => /\ Len(failures') = Len(failures) + 1
        /\ SubSeq(failures', 1, Len(failures)) = failures
        /\ failures'[Len(failures')].status = "FAILED EXPECTATION"
        /\ errors' = errors
        /\ pc' = "TEST"
        /\ idx' = idx + 1]_vars

C4_Witness ==
  /\ pc = "TEST"
  /\ ran = [s \in Stages |-> IF s = "TEST" THEN 2 ELSE 0]
  /\ Len(failures) >= 1
  /\ failures[1].status = "FAILED EXPECTATION"
  /\ spec_segment = Entry("uuid", <<"v">>)

\* C5 as stated: after an interrupt in SETUP or TEST one Error is recorded,
\* run() does not return and no TEARDOWN entry is executed.
C5_Original ==
  caught.exc = "KeyboardInterrupt" =>
     /\ Cardinality(InterruptErrors(caught.stage)) = 1
     /\ pc \notin {"summary", "returned"}
     /\ ran["TEARDOWN"] = 0

\* C5 amended: after an interrupt in SETUP or TEST one Error tagged with that
\* stage is recorded, no further SETUP/TEST entry runs, the TEARDOWN stage is
\* still run, and run() then ends by raising the interrupt, never by
\* returning.
C5_InterruptThenTeardown ==
  /\ [](caught.exc = "KeyboardInterrupt" =>
          /\ Cardinality(InterruptErrors(caught.stage)) = 1
          /\ pc \in {"TEARDOWN", "raised"}
          /\ teardown_started = 1
          /\ pc = "raised" =>
               /\ run_raised = "KeyboardInterrupt"
               /\ caught_teardown = "none" => TeardownComplete)
  /\ [][caught.exc = "KeyboardInterrupt" =>
          ran'["SETUP"] = ran["SETUP"] /\ ran'["TEST"] = ran["TEST"]]_vars

C5_Witness ==
  /\ caught.exc = "KeyboardInterrupt"
  /\ pc = "raised"
  /\ caught_teardown = "none"
  /\ ran["TEARDOWN"] = 1

\* C6: a CallError or another uncaught fault raised by an entry of SETUP or
\* TEST appends exactly one Error whose stage is the stage of the entry, ends
\* SETUP/TEST, and the TEARDOWN entries are still executed.
C6_FaultRecorded ==
  /\ [][(pc \in {"SETUP", "TEST"} /\ caught.exc = "none" /\ Fault(caught'.exc))
        => /\ Len(errors') = Len(errors) + 1
           /\ SubSeq(errors', 1, Len(errors)) = errors
           /\ errors'[Len(errors')].stage = pc
           /\ errors'[Len(errors')].status =
                 IF caught'.exc = "CallError" THEN "CALL ERROR"
                 ELSE "UNHANDLED EXCEPTION"
           /\ pc' = "TEARDOWN"]_vars
  /\ [][Fault(caught.exc) =>
          ran'["SETUP"] = ran["SETUP"] /\ ran'["TEST"] = ran["TEST"]]_vars
  /\ []((Fault(caught.exc) /\ Done /\ caught_teardown = "none") => TeardownComplete)

C6_Witness ==
  /\ caught = [exc |-> "Exception", stage |-> "SETUP"]
  /\ pc = "returned"
  /\ Len(errors) = 1
  /\ errors[1].stage = "SETUP"
  /\ ran["TEARDOWN"] = 1

\* a `call` entry whose command was launched and exited with a non-zero code
CallFailed ==
  /\ ran' # ran
  /\ spec_segment' = Entry("call", <<"target">>)
  /\ outcome'.resolved /\ outcome'.launched = "ok" /\ outcome'.rc # 0

CallFailedRecorded ==
  /\ Len(failures') = Len(failures) + 1
  /\ SubSeq(failures', 1, Len(failures)) = failures
  /\ failures'[Len(failures')].status = "FAILED ASSERTION"
  /\ failures'[Len(failures')].message = Str(<<"call failed: \"", "{}", "\"">>)
  /\ last_return_code' = outcome'.rc
  /\ pc' # pc

\* C7 as stated: `call` on a command exiting non-zero appends one Failure and
\* no Error, leaves last_return_code at the exit code and aborts the stage.
C7_Original ==
  [][CallFailed => (CallFailedRecorded /\ errors' = errors)]_vars

\* C7 amended: `call` on a command exiting non-zero appends one 'call failed'
\* Failure, leaves last_return_code at the exit code and aborts the stage; no
\* Error is appended in SETUP and TEST, and in TEARDOWN the driver appends one
\* "unexpected TEST FAILURE" Error for the abort.
C7_CallFailedAborts ==
  [][CallFailed =>
       /\ CallFailedRecorded
       /\ pc \in {"SETUP", "TEST"} => (errors' = errors /\ pc' = "TEARDOWN")
       /\ pc = "TEARDOWN" =>
            /\ Len(errors') = Len(errors) + 1
            /\ SubSeq(errors', 1, Len(errors)) = errors
            /\ errors'[Len(errors')].status = "unexpected TEST FAILURE"
            /\ errors'[Len(errors')].stage = "TEARDOWN"]_vars

C7_Witness ==
  /\ spec_segment = Entry("call", <<"target">>)
  /\ outcome.launched = "ok" /\ outcome.rc = 2
  /\ last_return_code = 2
  /\ caught_teardown = "TestFailure"
  /\ Len(failures) = 1 /\ Len(errors) = 1

\* C8: when run() returns, the value is the number of failures plus the
\* number of errors and the summary line is FAILED if there are failures,
\* else ERRORED if there are errors, else PASSED; a case with three empty
\* stages returns 0 and logs PASSED.
C8_ReturnValue ==
  /\ pc = "returned" =>
       /\ result = Len(failures) + Len(errors)
       /\ failures # <<>> => status_logged = "FAILED"
       /\ (failures = <<>> /\ errors # <<>>) => status_logged = "ERRORED"
       /\ (failures = <<>> /\ errors = <<>>) => status_logged = "PASSED"
  /\ (pc \in {"returned", "raised"} /\ \A s \in Stages : nsegments[s] = 0) =>
       (pc = "returned" /\ result = 0 /\ status_logged = "PASSED")

C8_Witness ==
  /\ pc = "returned"
  /\ Len(failures) = 1 /\ Len(errors) = 1
  /\ result = 2
  /\ status_logged = "FAILED"

\* C9: run() is left by an exception only when an interrupt was delivered in
\* one of the stages.
C9_OnlyInterruptRaises ==
  pc = "raised" =>
     (caught.exc = "KeyboardInterrupt" \/ caught_teardown = "KeyboardInterrupt")

\* the names of C10: an unknown one, and those registered without yaml_prep
NotDeclarativeNames == {"bogus", "fail", "expect", "abort", "assert_that",
                        "testcase_num", "testcase_id", "_last_call_output"}

\* C10: an entry naming an unknown directive, or one registered without a
\* yaml_prep function, raises ConfigError and leaves the symbol table, the
\* last exit code, the last output and the failures as they were; the driver
\* records it as an UNHANDLED EXCEPTION of the stage.
C10_NotDeclarative ==
  [][(/\ ran' # ran
      /\ Len(spec_segment') = 1
      /\ spec_segment'[1].directive \in NotDeclarativeNames)
     => /\ CaughtNow(pc) = "ConfigError"
        /\ local_symbols' = local_symbols
        /\ last_return_code' = last_return_code
        /\ last_call_output' = last_call_output
        /\ failures' = failures
        /\ Len(errors') = Len(errors) + 1
        /\ errors'[Len(errors')].status = "UNHANDLED EXCEPTION"
        /\ errors'[Len(errors')].stage = pc]_vars

C10_Witness ==
  /\ caught = [exc |-> "ConfigError", stage |-> "TEST"]
  /\ pc = "TEARDOWN"
  /\ Len(spec_segment) = 1
  /\ spec_segment[1].directive = "fail"
  /\ "v" \in DOMAIN local_symbols
  /\ failures = <<>>
  /\ Len(errors) = 1

\* the step just taken gave an entry of directive d to run_segment
Ran(d) ==
  /\ ran' # ran
  /\ Len(spec_segment') = 1
  /\ spec_segment'[1].directive = d

\* C11: an entry with more than one directive key is refused with a
\* ConfigError, and none of the directives it names runs: the symbol table,
\* the last-call state and the failures stay as they were.
C11_TwoKeysConfigError ==
  [][(ran' # ran /\ Len(spec_segment') > 1)
     => /\ CaughtNow(pc) = "ConfigError"
        /\ local_symbols' = local_symbols
        /\ last_return_code' = last_return_code
        /\ last_call_output' = last_call_output
        /\ failures' = failures]_vars

\* the values listed by a containment entry, after its optional message
ListedItems(parts) ==
  IF Len(parts) > 0 /\ parts[1] = "message" THEN Tail(Tail(parts)) ELSE parts
ListedValues(parts) ==
  [i \in 1..(Len(ListedItems(parts)) \div 2) |-> ListedItems(parts)[2 * i]]
LiteralsOnly(parts) ==
  \A i \in 1..(Len(ListedItems(parts)) \div 2) : ListedItems(parts)[2 * i - 1] = "literal"

\* the (value, output) pairs in which the output has the value, whatever the
\* case of the letters
PresentIn == {<<"COUNT", "count: 42">>, <<"b2", "a1 B22">>}
Present(v) == <<v, last_call_output>> \in PresentIn

\* when a containment directive is to pass on the listed values
ShouldPass(d, vs) ==
  CASE d = "assert_contains" -> \A i \in 1..Len(vs) : Present(vs[i])
    [] d = "assert_contains_any" -> \E i \in 1..Len(vs) : Present(vs[i])
    [] d \in {"assert_excludes", "assert_not_contains"} ->
         \A i \in 1..Len(vs) : ~Present(vs[i])
    [] d = "assert_excludes_any" -> \E i \in 1..Len(vs) : ~Present(vs[i])

\* the directive of the step returned and the stage goes on
Passed ==
  /\ failures' = failures
  /\ errors' = errors
  /\ pc' = pc
  /\ idx' = idx + 1

\* the directive of the step recorded one Failure and aborted the stage
FailedAndAborted ==
  /\ Len(failures') = Len(failures) + 1
  /\ SubSeq(failures', 1, Len(failures)) = failures
  /\ failures'[Len(failures')].status = "FAILED ASSERTION"
  /\ CaughtNow(pc) = "TestFailure"
  /\ pc' # pc

\* C12: for every captured output and every list of literal values, the
\* empty list included, a containment entry passes exactly when
\* assert_contains finds all values, assert_contains_any at least one,
\* assert_excludes / assert_not_contains none, assert_excludes_any misses at
\* least one, letter case ignored; otherwise it records one Failure and
\* aborts the stage.
C12_Containment ==
  [][(/\ ran' # ran
      /\ Len(spec_segment') = 1
      /\ spec_segment'[1].directive \in DOMAIN Checkers
      /\ LiteralsOnly(spec_segment'[1].segment))
     => IF ShouldPass(spec_segment'[1].directive, ListedValues(spec_segment'[1].segment))
        THEN Passed
        ELSE FailedAndAborted]_vars

\* The same property for the entries whose list is not empty (a list of the
\* message alone gives the checker no value); it holds.
Containment_NonEmpty ==
  [][(/\ ran' # ran
      /\ Len(spec_segment') = 1
      /\ spec_segment'[1].directive \in DOMAIN Checkers
      /\ spec_segment'[1].segment # <<>>
      /\ LiteralsOnly(spec_segment'[1].segment))
     => IF ShouldPass(spec_segment'[1].directive, ListedValues(spec_segment'[1].segment))
        THEN Passed
        ELSE FailedAndAborted]_vars

\* match.groups() of the first match of each pattern in each output, <<>>
\* when the pattern does not match or has no capture group
FirstMatchGroups(pattern, out) ==
  CASE pattern = "(\\d+)" /\ out = "count: 42" -> <<"42">>
    [] pattern = "(\\d+)" /\ out = "a1 B22" -> <<"1">>
    [] pattern = "([a-z]+): (\\d+)" /\ out = "count: 42" -> <<"count", "42">>
    [] OTHER -> <<>>

\* the step just taken ran an extract_match entry with a pattern and either a
\* variable or a list of groups
ExtractRan ==
  /\ Ran("extract_match")
  /\ yaml_extract_match(spec_segment'[1].segment).pattern \in DOMAIN Patterns
  /\ (yaml_extract_match(spec_segment'[1].segment).variable = PyNone)
       # (yaml_extract_match(spec_segment'[1].segment).groups = <<>>)

\* C13: extract_match with a pattern and one variable binds the variable to
\* the first capture of the first match in the last output, and to None,
\* without raising, when there is no match; with a list of groups the i-th
\* name is bound to the i-th capture, and to None when there is no match or no
\* i-th capture.
C13_ExtractMatch ==
  [][ExtractRan =>
       LET args == yaml_extract_match(spec_segment'[1].segment)
           caps == FirstMatchGroups(args.pattern, last_call_output)
       IN /\ Passed
          /\ args.variable # PyNone =>
               local_symbols'[args.variable] = IF caps = <<>> THEN PyNone ELSE caps[1]
          /\ \A i \in 1..Len(args.groups) :
               local_symbols'[args.groups[i]] =
                 IF i <= Len(caps) THEN caps[i] ELSE PyNone]_vars

C13_Witness ==
  /\ pc = "TEST" /\ idx = 1
  /\ spec_segment = Entry("extract_match",
                          <<"pattern", "([a-z]+): (\\d+)",
                            "groups", "a", "groups", "b", "groups", "c">>)
  /\ last_call_output = "count: 42"
  /\ local_symbols["a"] = "count"
  /\ local_symbols["b"] = "42"
  /\ local_symbols["c"] = PyNone

\* str.count("{}") of the print strings of the log entries
PlaceholdersOf(t) == IF t = "{}-{}" THEN 2 ELSE 0

\* the step just taken ran a log entry: a print string and its arguments
LogRan == Ran("log") /\ Len(spec_segment'[1].segment) >= 1

\* C14 as stated: formatting a print string with arguments never raises on
\* account of the number of its {} placeholders, "{}-{}" with one argument
\* included.
C14_Original ==
  [][LogRan => CaughtNow(pc) # "IndexError"]_vars

\* C14 amended: formatting returns without raising when the print string has
\* at most as many {} placeholders as there are arguments (it is padded when
\* it has fewer) and when there is no argument at all; with at least one
\* argument and more placeholders than arguments it raises IndexError.
C14_FormatPads ==
  [][LogRan =>
       LET placeholders == PlaceholdersOf(spec_segment'[1].segment[1])
           nargs == Len(spec_segment'[1].segment) - 1
       IN IF nargs > 0 /\ placeholders > nargs
          THEN CaughtNow(pc) = "IndexError" /\ failures' = failures
          ELSE Passed]_vars

C14_Witness ==
  /\ spec_segment = Entry("log", <<"{}-{}", "v">>)
  /\ caught = [exc |-> "IndexError", stage |-> "TEST"]
  /\ pc = "TEARDOWN"
  /\ Len(errors) = 1

\* the step just taken ran a call or call_may_fail entry whose target did not
\* resolve
ResolutionFailed ==
  /\ (Ran("call") \/ Ran("call_may_fail"))
  /\ ~outcome'.resolved

\* C15: after a call or call_may_fail entry whose target does not resolve,
\* last_return_code is 0 and last_call_output is empty, whatever an earlier
\* invocation left there.
C15_ResolutionFailureResets ==
  [][ResolutionFailed =>
       (last_return_code' = 0 /\ last_call_output' = "")]_vars

\* the step just taken ran a call_may_fail or shell entry whose command was
\* launched and exited with a non-zero code
MayFailExitedNonZero ==
  /\ (Ran("call_may_fail") \/ Ran("shell"))
  /\ outcome'.resolved /\ outcome'.launched = "ok" /\ outcome'.rc # 0

\* C16: a command that exits non-zero under call_may_fail or shell records
\* no Failure and no Error, the stage goes on with the next entry, the output
\* is captured and last_return_code is the exit code; while last_return_code
\* is non-zero an assert_failure entry passes and an assert_success entry
\* does not.
C16_MayFailNonZero ==
  /\ [][MayFailExitedNonZero =>
          /\ Passed
          /\ last_call_output' = outcome'.out
          /\ local_symbols'["_last_call_output"] = outcome'.out
          /\ last_return_code' = outcome'.rc]_vars
  /\ [][(Ran("assert_failure") /\ last_return_code # 0) => Passed]_vars
  /\ [][(Ran("assert_success") /\ last_return_code # 0) =>
          (Len(failures') = Len(failures) + 1 /\ pc' # pc)]_vars

C16_Witness ==
  /\ pc = "TEST" /\ idx = 1
  /\ spec_segment = Entry("shell", <<"target">>)
  /\ outcome.launched = "ok" /\ outcome.rc = 2 /\ outcome.out = "count: 42"
  /\ last_return_code = 2
  /\ last_call_output = "count: 42"
  /\ failures = <<>> /\ errors = <<>>

\* the step just taken ran an assert_success or assert_failure entry in SETUP
\* or TEST, and whether the last exit code violates what it requires
ExitAssertRan ==
  /\ (Ran("assert_success") \/ Ran("assert_failure"))
  /\ pc \in {"SETUP", "TEST"}
ExitAssertViolated ==
  IF spec_segment'[1].directive = "assert_success"
  THEN last_return_code # 0 ELSE last_return_code = 0

\* C17: assert_success and assert_failure, without or with a message, act as
\* assert_that on the last exit code: when it violates the requirement one
\* Failure and no Error is appended and the stage is left by the stage-abort
\* signal; when it does not, nothing is recorded and the stage goes on.
C17_ExitAssertsLikeAssertThat ==
  [][ExitAssertRan =>
       IF ExitAssertViolated
       THEN FailedAndAborted /\ errors' = errors
       ELSE Passed]_vars

\* the step just taken ran an entry that raised the stage-abort signal
AbortSignalled == ran' # ran /\ CaughtNow(pc) = "TestFailure"

\* one Failure of a failed assertion was appended by the step
OneAssertionFailure ==
  /\ Len(failures') = Len(failures) + 1
  /\ SubSeq(failures', 1, Len(failures)) = failures
  /\ failures'[Len(failures')].status = "FAILED ASSERTION"

\* one Error for a stage-abort signal caught in TEARDOWN was appended by the
\* step
OneTeardownError ==
  /\ Len(errors') = Len(errors) + 1
  /\ SubSeq(errors', 1, Len(errors)) = errors
  /\ errors'[Len(errors')].status = "unexpected TEST FAILURE"
  /\ errors'[Len(errors')].stage = "TEARDOWN"

\* C18 as stated: in every stage, TEARDOWN included, an assertion that fails
\* and raises the stage-abort signal appends one Failure and the signal adds
\* no Error, so the records grow by exactly one.
C18_Original ==
  [][AbortSignalled =>
       (OneAssertionFailure /\ errors' = errors)]_vars

\* C18 amended: an assertion that fails and raises the stage-abort signal
\* appends exactly one Failure; in SETUP and TEST the signal adds no Error
\* (the records grow by one), in TEARDOWN the driver appends one Error for
\* it (the records grow by two).
C18_AbortRecords ==
  [][AbortSignalled =>
       /\ OneAssertionFailure
       /\ pc \in {"SETUP", "TEST"} => errors' = errors
       /\ pc = "TEARDOWN" => OneTeardownError
       /\ Len(failures') + Len(errors') =
            Len(failures) + Len(errors) + (IF pc = "TEARDOWN" THEN 2 ELSE 1)]_vars

C18_Witness ==
  /\ spec_segment = Entry("code", <<"abort()">>)
  /\ caught_teardown = "TestFailure"
  /\ pc = "returned"
  /\ Len(failures) = 1 /\ Len(errors) = 1
  /\ result = 2

ExtractMisconfigured ==
  /\ Ran("extract_match")
  /\ LET args == yaml_extract_match(spec_segment'[1].segment)
     IN \/ args.pattern \in {PyNone, ""}
        \/ args.variable # PyNone /\ args.groups # <<>>
        \/ args.variable = PyNone /\ args.groups = <<>>

\* C20: extract_match without a pattern, with both a variable and groups, or
\* with neither raises ConfigError and leaves the symbol table as it was: no
\* symbol is bound, reset to None or added.
C20_ExtractMatchValidates ==
  [][ExtractMisconfigured =>
       /\ CaughtNow(pc) = "ConfigError"
       /\ local_symbols' = local_symbols]_vars

C20_Witness ==
  /\ spec_segment = Entry("extract_match",
                          <<"pattern", "(\\d+)", "variable", "testcase_id",
                            "groups", "a">>)
  /\ caught = [exc |-> "ConfigError", stage |-> "TEST"]
  /\ local_symbols["testcase_id"] = "label"
  /\ "a" \notin DOMAIN local_symbols
  /\ last_call_output = "count: 42"

\* the step just taken ran a call, call_may_fail or shell entry whose command
\* was launched and exited
InvocationCompleted ==
  /\ (Ran("call") \/ Ran("call_may_fail") \/ Ran("shell"))
  /\ outcome'.resolved /\ outcome'.launched = "ok"

\* C21: after every completed invocation (call, call_may_fail, shell),
\* whatever the exit code, the symbol _last_call_output is the newly captured
\* output, and so is last_call_output, the text that the containment
\* directives and extract_match read.
C21_SymbolRefreshed ==
  [][InvocationCompleted =>
       /\ local_symbols'["_last_call_output"] = outcome'.out
       /\ last_call_output' = outcome'.out]_vars

C21_Witness ==
  /\ spec_segment = Entry("call", <<"target">>)
  /\ outcome.launched = "ok" /\ outcome.rc = 1 /\ outcome.out = "count: 42"
  /\ caught = [exc |-> "TestFailure", stage |-> "TEST"]
  /\ ran["SETUP"] = 1
  /\ local_symbols["_last_call_output"] = "count: 42"
  /\ last_call_output = "count: 42"

\* C22: at every directive boundary of run() the symbol _last_call_output
\* equals last_call_output, the text read by the containment directives and
\* by extract_match; no sequence of entries makes the two differ.
C22_SymbolIsLastOutput ==
  local_symbols["_last_call_output"] = last_call_output

\* the step gives the next entry of the current stage to run_segment: the
\* entries before it were run once each, in order, and none of them raised
RunsNextEntry ==
  /\ pc \in Stages
  /\ ran[pc] = idx
  /\ idx < nsegments[pc]
  /\ ran' = [ran EXCEPT ![pc] = idx + 1]
  /\ pc \in {"SETUP", "TEST"} => caught.exc = "none"
  /\ pc = "TEARDOWN" => caught_teardown = "none"

\* C23: when every directive terminates run() terminates, by returning or
\* by re-raising an interrupt, and it runs each entry of each stage at most
\* once, in declared order, and only if every earlier entry of its stage
\* completed without raising.
C23_TerminatesInOrder ==
  /\ <>(pc \in {"returned", "raised"})
  /\ [](pc = "raised" => run_raised = "KeyboardInterrupt")
  /\ [](\A s \in Stages : ran[s] <= nsegments[s])
  /\ [][ran' # ran => RunsNextEntry]_vars

\* The same property without the way run() is left; it holds.
Terminates_InOrder ==
  /\ <>(pc \in {"returned", "raised"})
  /\ [](\A s \in Stages : ran[s] <= nsegments[s])
  /\ [][ran' # ran => RunsNextEntry]_vars
====
